---- MODULE Spec2Model ----
(***************************************************************************)
(* simple-hubctl (src/src/main.rs): the hub-class control session          *)
(* (HubControl), the per-hub port cache (TogglableDevice) and main: the    *)
(* enumeration pass with its topology resolver, the hub picker and the     *)
(* toggle loop.                                                            *)
(*                                                                         *)
(* Two specifications share the definitions below.                         *)
(*   SpecApi : HubControl driven by arbitrary calls against one hub.       *)
(*   Spec    : main from list_devices() to process exit.                   *)
(*                                                                         *)
(* Option<T> is a sequence: <<>> is None, <<x>> is Some(x).                *)
(* Rust's 0-based byte index i of a response is position i + 1 here.       *)
(***************************************************************************)
EXTENDS Integers, Sequences, FiniteSets, TLC

VARIABLES
    \* ---- main ----
    pc,          \* position in main
    devices,     \* Vec<DeviceInfo> collected from list_devices()
    choices,     \* Vec<SelectableDevice>
    di,          \* position of the outer `for device_info in &devices`
    port_count,  \* Option<u8> of the hub being enumerated
    children,    \* Vec<String> of the hub being enumerated
    ci,          \* position of the inner `for child_device in &devices`
    selection,   \* Option<SelectableDevice>: what the hub picker returned
    hub,         \* Option<TogglableDevice>
    ni,          \* position of the loop of TogglableDevice::new
    index,       \* starting cursor of the port picker
    port,        \* Option<TogglablePort>: the selection being toggled
    printed,     \* what the last step wrote to stdout
    exit,        \* Option<exit status>
    exitPath,    \* which return (or panic) ended the process
    promptErr,   \* Option<the InquireError the last prompt returned>
    access,      \* the port slot accesses of the last step
    initOk,      \* ports whose status read in TogglableDevice::new succeeded
    \* ---- the hub hardware ----
    power,       \* PORT_POWER of each downstream port of the hub
    \* ---- HubControl driven directly ----
    bigEndian,   \* byte order of the build target
    session,     \* Option<HubControl>
    call,        \* Option<the last HubControl call>
    last         \* Option<the call before it, when a successful toggle>

mainVars == <<pc, devices, choices, di, port_count, children, ci, selection,
              hub, ni, index, port, printed, exit, exitPath, promptErr, access,
              initOk>>
apiVars == <<bigEndian, session, call, last>>
vars == <<pc, devices, choices, di, port_count, children, ci, selection,
          hub, ni, index, port, printed, exit, exitPath, promptErr, access,
          initOk, power, bigEndian, session, call, last>>

None == <<>>
Some(x) == <<x>>

\* ------------------------------------------------------------------ bounds
\* Largest port count a hub descriptor reports in the model (u8 in the code).
MaxPorts == 3
\* Longest device list list_devices() yields in the model.
MaxDevices == 4

\* ------------------------------------------------------- program constants
UsbDescriptorType_Hub == 41
UsbDescriptorType_SuperSpeedHub == 42
UsbDeviceClass_Hub == 9
UsbRequest_GetStatus == 0
UsbRequest_ClearFeature == 1
UsbRequest_SetFeature == 3
UsbRequest_GetDescriptor == 6
\* 1 << 3, FEAT_POWER
FEAT_POWER == 8
\* usb_version() >= 0x0300
SuperSpeedVersion == 768

\* ------------------------------------------------------------- HubControl
Bit0(b) == b % 2

\* u16::to_be(): the identity on a big-endian target, a byte swap otherwise.
ToBe(v, big) == IF big THEN v ELSE (v % 256) * 256 + (v \div 256)

IsSuperspeed(usb_version) == usb_version >= SuperSpeedVersion

\* The ControlIn of HubControl::port_count, with the timeout of the call.
PortCountRequest(is_superspeed, big) ==
    [control_type |-> "Class",
     recipient    |-> "Device",
     request      |-> UsbRequest_GetDescriptor,
     value        |-> ToBe(IF is_superspeed THEN UsbDescriptorType_SuperSpeedHub
                                            ELSE UsbDescriptorType_Hub, big),
     index        |-> 0,
     length       |-> 12,
     timeout      |-> 5]

\* Ok(response[2])
PortCountResult(response) == response[3]

\* The ControlIn of HubControl::status, with the timeout of the call.
StatusRequest(p) ==
    [control_type |-> "Class",
     recipient    |-> "Other",
     request      |-> UsbRequest_GetStatus,
     value        |-> 0,
     index        |-> p,
     length       |-> 4,
     timeout      |-> 1]

\* Reading byte 0, the connect bit, instead of byte 1.
StatusResult_Byte0(response) == Bit0(response[1]) # 0

\* Ok(response[1] & 1 != 0)
StatusResult(response) == Bit0(response[2]) # 0

\* The two request codes the wrong way round.
SetPortRequest_Swapped(p, enabled) ==
    [control_type |-> "Class",
     recipient    |-> "Other",
     request      |-> IF enabled THEN UsbRequest_ClearFeature
                                 ELSE UsbRequest_SetFeature,
     value        |-> FEAT_POWER,
     index        |-> p,
     data         |-> <<>>,
     timeout      |-> 5]

\* The ControlOut of HubControl::set_port, with the timeout of the call.
SetPortRequest(p, enabled) ==
    [control_type |-> "Class",
     recipient    |-> "Other",
     request      |-> IF enabled THEN UsbRequest_SetFeature
                                 ELSE UsbRequest_ClearFeature,
     value        |-> FEAT_POWER,
     index        |-> p,
     data         |-> <<>>,
     timeout      |-> 5]

\* ------------------------------------------------------- the hub hardware
\* The hub answers a port request only for a port it has.
HubHasPort(pw, p) == p \in DOMAIN pw

\* wPortStatus, wPortChange of port p, little-endian: PORT_POWER is bit 8 of
\* wPortStatus, bit 0 of the second byte. b0, n1, b2, b3 are the other bits.
HubStatusResponse(pw, p, b0, n1, b2, b3) ==
    <<b0, 2 * n1 + (IF pw[p] THEN 1 ELSE 0), b2, b3>>

\* The hub applies a SET_FEATURE / CLEAR_FEATURE(PORT_POWER) it accepts.
HubApply(pw, req) ==
    IF /\ req.control_type = "Class"
       /\ req.recipient = "Other"
       /\ req.value = FEAT_POWER
       /\ req.index \in DOMAIN pw
       /\ req.request \in {UsbRequest_SetFeature, UsbRequest_ClearFeature}
    THEN [pw EXCEPT ![req.index] = (req.request = UsbRequest_SetFeature)]
    ELSE pw

\* Values of the status bytes the hub is free to choose (byte 0 carries the
\* connect bit, bits 1..7 of byte 1 the speed and indicator bits).
Byte0Values == {0, 1}
Byte1High == {0, 1}
ChangeValues == {0, 1}

\* Every outcome of the GET_STATUS transfer for port p: Err is <<>>.
StatusOutcomes(pw, p) ==
    {None} \cup
    IF HubHasPort(pw, p)
    THEN {Some(HubStatusResponse(pw, p, b0, n1, b2, b3)) :
            b0 \in Byte0Values, n1 \in Byte1High,
            b2 \in ChangeValues, b3 \in ChangeValues}
    ELSE {}

\* Every outcome of a PORT_POWER feature transfer: accepted or not.
FeatureOutcomes(pw, p) == IF HubHasPort(pw, p) THEN {TRUE, FALSE} ELSE {FALSE}

\* set_port(port, status(port)?): the inversion forgotten.
Toggle_NoInvert(pw, p, statusOutcome, featureOk) ==
    IF statusOutcome = None
    THEN [ok |-> FALSE, power |-> pw, sent |-> <<StatusRequest(p)>>,
          status |-> None]
    ELSE LET req == SetPortRequest(p, StatusResult(statusOutcome[1]))
         IN  [ok |-> featureOk,
              power |-> IF featureOk THEN HubApply(pw, req) ELSE pw,
              sent |-> <<StatusRequest(p), req>>,
              status |-> Some(StatusResult(statusOutcome[1]))]

\* HubControl::toggle: set_port(port, !status(port)?).  The result for one
\* outcome of each transfer: ok, the hub's power afterwards, what was sent.
Toggle(pw, p, statusOutcome, featureOk) ==
    IF statusOutcome = None
    THEN [ok |-> FALSE, power |-> pw, sent |-> <<StatusRequest(p)>>,
          status |-> None]
    ELSE LET enabled == ~StatusResult(statusOutcome[1])
             req == SetPortRequest(p, enabled)
         IN  [ok |-> featureOk,
              power |-> IF featureOk THEN HubApply(pw, req) ELSE pw,
              sent |-> <<StatusRequest(p), req>>,
              status |-> Some(StatusResult(statusOutcome[1]))]

\* ------------------------------------------- HubControl driven directly
\* USB versions of the device record handed to HubControl::new.
Versions == {0, 512, 767, 768, 800, 65535}
\* Port arguments of the calls: u8, the hub's ports and some it lacks.
ApiPorts == (0 .. MaxPorts + 1) \cup {255}
\* Leading bytes of a hub descriptor the hub is free to choose.
DescByte0 == {9}
DescByte1 == {UsbDescriptorType_Hub, UsbDescriptorType_SuperSpeedHub}

\* The 12 bytes a hub with n ports answers GET_DESCRIPTOR with.
HubDescriptor(n, b0, b1) == <<b0, b1, n, 0, 0, 0, 0, 0, 0, 0, 0, 0>>

PortCountOutcomes(n) ==
    {None} \cup {Some(HubDescriptor(n, b0, b1)) : b0 \in DescByte0, b1 \in DescByte1}

NumPorts(pw) == Cardinality(DOMAIN pw)

\* What a successful toggle leaves for the next call to compare with: the
\* port and the power state the hub reported before it.
LastOf(c) ==
    IF c # None /\ c[1].op = "toggle" /\ c[1].ok
    THEN Some([port |-> c[1].port, before |-> c[1].before])
    ELSE None

\* HubControl::new(device_info), device_info.open() succeeding or not.
ApiNew ==
    /\ pc = "api"
    /\ session = None
    /\ \E v \in Versions, openOk \in BOOLEAN :
         /\ session' = IF openOk
                       THEN Some([is_superspeed |-> IsSuperspeed(v),
                                  usb_version |-> v])
                       ELSE None
         /\ call' = Some([op |-> "new", ok |-> openOk, usb_version |-> v])
    /\ last' = None
    /\ UNCHANGED <<mainVars, power, bigEndian>>

\* HubControl::port_count()
ApiPortCount ==
    /\ pc = "api"
    /\ session # None
    /\ \E o \in PortCountOutcomes(NumPorts(power)) :
         call' = Some([op |-> "port_count",
                       ok |-> o # None,
                       sent |-> <<PortCountRequest(session[1].is_superspeed,
                                                   bigEndian)>>,
                       response |-> o,
                       result |-> IF o = None THEN None
                                  ELSE Some(PortCountResult(o[1]))])
    /\ last' = None
    /\ UNCHANGED <<mainVars, power, bigEndian, session>>

\* HubControl::status(port)
ApiStatus ==
    /\ pc = "api"
    /\ session # None
    /\ \E p \in ApiPorts : \E o \in StatusOutcomes(power, p) :
         call' = Some([op |-> "status",
                       ok |-> o # None,
                       port |-> p,
                       sent |-> <<StatusRequest(p)>>,
                       response |-> o,
                       result |-> IF o = None THEN None
                                  ELSE Some(StatusResult(o[1]))])
    /\ last' = None
    /\ UNCHANGED <<mainVars, power, bigEndian, session>>

\* HubControl::on(port) and HubControl::off(port): set_port(port, enabled)
ApiSetPort ==
    /\ pc = "api"
    /\ session # None
    /\ \E p \in ApiPorts, enabled \in BOOLEAN :
       \E featureOk \in FeatureOutcomes(power, p) :
         /\ power' = IF featureOk THEN HubApply(power, SetPortRequest(p, enabled))
                                  ELSE power
         /\ call' = Some([op |-> "set_port",
                          ok |-> featureOk,
                          port |-> p,
                          enabled |-> enabled,
                          sent |-> <<SetPortRequest(p, enabled)>>])
    /\ last' = None
    /\ UNCHANGED <<mainVars, bigEndian, session>>

\* HubControl::toggle(port)
ApiToggle ==
    /\ pc = "api"
    /\ session # None
    /\ \E p \in ApiPorts : \E o \in StatusOutcomes(power, p) :
       \E featureOk \in FeatureOutcomes(power, p) :
         LET t == Toggle(power, p, o, featureOk)
         IN  /\ power' = t.power
             /\ call' = Some([op |-> "toggle",
                              ok |-> t.ok,
                              port |-> p,
                              sent |-> t.sent,
                              before |-> t.status])
    /\ last' = LastOf(call)
    /\ UNCHANGED <<mainVars, bigEndian, session>>

MainIdle ==
    /\ devices = <<>> /\ choices = <<>> /\ di = 0 /\ port_count = None
    /\ children = <<>> /\ ci = 0 /\ selection = None /\ hub = None /\ ni = 0
    /\ index = 0 /\ port = None /\ printed = "" /\ exit = None
    /\ exitPath = "" /\ promptErr = None /\ access = None /\ initOk = {}

InitApi ==
    /\ pc = "api"
    /\ MainIdle
    /\ power \in [1 .. MaxPorts -> BOOLEAN]
    /\ bigEndian \in BOOLEAN
    /\ session = None
    /\ call = None
    /\ last = None

NextApi == ApiNew \/ ApiPortCount \/ ApiStatus \/ ApiSetPort \/ ApiToggle

SpecApi == InitApi /\ [][NextApi]_vars

\* ------------------------------------------------------------------- main
\* ---- what list_devices() can yield
Dev(bus, chain, class, version, vid, pid, product) ==
    [bus_id |-> bus, port_chain |-> chain, class |-> class,
     usb_version |-> version, vendor_id |-> vid, product_id |-> pid,
     product_string |-> product]

\* A hub on port 2 of bus 1, devices below it, a hub nested on its port 2,
\* and devices that are not its children: a port number 0, another root
\* port, another bus, one level deeper.
DeviceUniverse ==
    { Dev(1, <<2>>,       UsbDeviceClass_Hub, 512, "05e3", "0608", Some("USB2.0 Hub")),
      Dev(1, <<2, 1>>,    0, 512, "046d", "c077", Some("USB Optical Mouse")),
      Dev(1, <<2, 3>>,    0, 512, "cafe", "0001", Some("Widget")),
      Dev(1, <<2, 0>>,    0, 272, "cafe", "0002", None),
      Dev(1, <<5, 1>>,    0, 512, "046d", "0003", None),
      Dev(2, <<2, 1>>,    0, 512, "cafe", "0004", Some("Gadget")),
      Dev(1, <<2, 2>>,    UsbDeviceClass_Hub, 784, "05e3", "0620", None),
      Dev(1, <<2, 2, 1>>, 0, 800, "046d", "c52b", None) }

\* No two devices sit at the same place of the same bus.
DeviceLists ==
    {l \in UNION {[1 .. n -> DeviceUniverse] : n \in 0 .. MaxDevices} :
        \A i, j \in DOMAIN l : l[i] = l[j] => i = j}

\* usb_ids::Device::from_vid_pid(..).map(|v| v.name())
UsbIdsDevice(vid, pid) ==
    IF vid = "046d" /\ pid = "c077" THEN Some("M105 Optical Mouse")
    ELSE IF vid = "046d" /\ pid = "c52b" THEN Some("Unifying Receiver")
    ELSE IF vid = "05e3" /\ pid = "0608" THEN Some("Hub")
    ELSE None

\* usb_ids::Vendor::from_id(..).map(|v| v.name())
UsbIdsVendor(vid) ==
    IF vid = "046d" THEN Some("Logitech, Inc.")
    ELSE IF vid = "05e3" THEN Some("Genesys Logic, Inc.")
    ELSE None

UnwrapOr(opt, default) == IF opt = None THEN default ELSE opt[1]

\* A String is the tuple of the pieces it is formatted from.
NoDevice == <<"<no device>">>
Unknown == <<"<unknown>">>

\* get_name(device_info)
GetName(d) ==
    <<"Hub", d.vendor_id, d.product_id,
      UnwrapOr(d.product_string, "[no product name]"),
      UnwrapOr(UsbIdsVendor(d.vendor_id), "[unknown vendor]"),
      UnwrapOr(UsbIdsDevice(d.vendor_id, d.product_id), "[unknown product]"),
      d.bus_id, d.port_chain>>

\* The name of a child: the product database, else "{ps} from {vendor}",
\* else "<unknown>".
ChildName(d) ==
    IF UsbIdsDevice(d.vendor_id, d.product_id) # None
    THEN <<UsbIdsDevice(d.vendor_id, d.product_id)[1]>>
    ELSE IF d.product_string # None
    THEN <<d.product_string[1], " from ",
           UnwrapOr(UsbIdsVendor(d.vendor_id), "[unknown vendor]")>>
    ELSE Unknown

\* children.resize_with(port_count as usize, || "<no device>".to_owned())
EmptySlots(count) == [i \in 1 .. count |-> NoDevice]

\* The three `continue`s of the inner loop: same bus, one element longer,
\* cpc[0..pc.len()] == *pc.
IsDirectChild(h, c) ==
    /\ c.bus_id = h.bus_id
    /\ Len(c.port_chain) = Len(h.port_chain) + 1
    /\ SubSeq(c.port_chain, 1, Len(h.port_chain)) = h.port_chain

\* cpc[cpc.len() - 1]
PortNumber(c) == c.port_chain[Len(c.port_chain)]

\* `index as u8 + 1`: the port of slot `index` (0-based).
PortOfSlot(i) == (i % 256) + 1

\* What inquire::Select::prompt() returns for n options: Ok(i), <<"Ok", i>>,
\* or an InquireError.  An empty option list is refused.
PromptOutcomes(n) ==
    IF n = 0
    THEN {<<"Err", "InvalidConfiguration">>, <<"Err", "IO">>}
    ELSE {<<"Ok", i>> : i \in 1 .. n}
         \cup {<<"Err", "OperationCanceled">>, <<"Err", "OperationInterrupted">>,
               <<"Err", "IO">>}

\* The errors by which the user declines a prompt: Esc and Ctrl-C.
UserCancel == {"OperationCanceled", "OperationInterrupted"}

Slot(op, ports, count) == Some([op |-> op, ports |-> ports, count |-> count])

\* ---- main, line 222: nusb::list_devices().await?
ListDevices ==
    /\ pc = "start"
    /\ \/ /\ \E l \in DeviceLists : devices' = l
          /\ pc' = "enum"
          /\ di' = 1
          /\ UNCHANGED <<exit, exitPath>>
       \/ /\ pc' = "exit"
          /\ exit' = Some(1)
          /\ exitPath' = "list_devices"
          /\ UNCHANGED <<devices, di>>
    /\ printed' = ""
    /\ access' = None
    /\ UNCHANGED <<choices, port_count, children, ci, selection, hub, ni, index,
                   port, promptErr, initOk, power, apiVars>>

\* choices.push(SelectableDevice { name, info, children })
Pushed(c, d, ch) ==
    Append(c, [name |-> GetName(d), info |-> d, children |-> ch])

\* ---- lines 225-243: one device of the outer loop, up to the inner loop.
\* HubControl::new and port_count either yield a count or they do not.
EnumDevice ==
    /\ pc = "enum"
    /\ di <= Len(devices)
    /\ LET d == devices[di] IN
       IF d.class # UsbDeviceClass_Hub
       THEN /\ di' = di + 1
            /\ printed' = ""
            /\ UNCHANGED <<pc, port_count, children, ci, choices>>
       ELSE \E openOk \in BOOLEAN, n \in 0 .. MaxPorts :
            \E o \in PortCountOutcomes(n) :
              IF openOk /\ o # None
              THEN /\ port_count' = Some(PortCountResult(o[1]))
                   /\ children' = EmptySlots(PortCountResult(o[1]))
                   /\ ci' = 1
                   /\ pc' = "scan"
                   /\ printed' = ""
                   /\ UNCHANGED <<di, choices>>
              ELSE /\ port_count' = None
                   /\ children' = <<>>
                   /\ printed' = "Can't inquire port count from hub"
                   /\ choices' = Pushed(choices, d, <<>>)
                   /\ di' = di + 1
                   /\ UNCHANGED <<pc, ci>>
    /\ access' = None
    /\ UNCHANGED <<devices, selection, hub, ni, index, port, exit, exitPath,
                   promptErr, initOk, power, apiVars>>

\* A port number 0 without the check: `0usize - 1` overflows and panics.
ScanOutcome_NoZeroCheck(h, c, len) ==
    IF ~IsDirectChild(h, c) THEN "continue"
    ELSE IF PortNumber(c) >= 1 /\ PortNumber(c) - 1 < len THEN "store"
    ELSE "panic"

\* What the body of the inner loop does with candidate c of hub h, whose
\* children vector has len slots.
ScanOutcome(h, c, len) ==
    IF ~IsDirectChild(h, c) THEN "continue"
    ELSE IF PortNumber(c) = 0 THEN "zero"
    ELSE IF PortNumber(c) - 1 < len THEN "store"
    ELSE "panic"

\* ---- lines 244-277: one candidate of the inner loop.
ScanChild ==
    /\ pc = "scan"
    /\ ci <= Len(devices)
    /\ LET c == devices[ci]
           what == ScanOutcome(devices[di], c, Len(children))
       IN  /\ \/ /\ what = "continue"
                 /\ printed' = ""
                 /\ access' = None
                 /\ UNCHANGED children
              \/ /\ what = "zero"
                 /\ printed' = "ERROR: Port number is 0!"
                 /\ access' = None
                 /\ UNCHANGED children
              \/ /\ what = "store"
                 /\ children' = [children EXCEPT ![PortNumber(c)] = ChildName(c)]
                 /\ printed' = ""
                 /\ access' = Slot("resolver", {PortNumber(c)}, Len(children))
              \/ \* index out of bounds: the process panics
                 /\ what = "panic"
                 /\ printed' = ""
                 /\ access' = Slot("resolver", {PortNumber(c)}, Len(children))
                 /\ UNCHANGED children
           /\ IF what = "panic"
              THEN /\ pc' = "exit"
                   /\ exit' = Some(101)
                   /\ exitPath' = "panic"
                   /\ UNCHANGED ci
              ELSE /\ ci' = ci + 1
                   /\ UNCHANGED <<pc, exit, exitPath>>
    /\ UNCHANGED <<devices, choices, di, port_count, selection, hub, ni, index,
                   port, promptErr, initOk, power, apiVars>>

\* ---- lines 282-286: the inner loop is over, the hub joins the choices.
PushChoice ==
    /\ pc = "scan"
    /\ ci > Len(devices)
    /\ choices' = Pushed(choices, devices[di], children)
    /\ di' = di + 1
    /\ pc' = "enum"
    /\ printed' = ""
    /\ access' = None
    /\ UNCHANGED <<devices, port_count, children, ci, selection, hub, ni, index,
                   port, exit, exitPath, promptErr, initOk, power, apiVars>>

\* ---- line 289: Select::new("Select a hub", choices).prompt()?
\* `choices` moves into the prompt; `devices` is not read again.  Once the
\* prompt has returned, the picker is where di = 0.
SelectHub ==
    /\ pc = "enum"
    /\ di > Len(devices)
    /\ \E r \in PromptOutcomes(Len(choices)) :
         IF r[1] = "Ok"
         THEN /\ selection' = Some(choices[r[2]])
              /\ pc' = "new"
              /\ promptErr' = None
              /\ UNCHANGED <<exit, exitPath>>
         ELSE /\ pc' = "exit"
              /\ exit' = Some(1)
              /\ exitPath' = "hub_prompt"
              /\ promptErr' = Some(r[2])
              /\ UNCHANGED selection
    /\ choices' = <<>>
    /\ devices' = <<>>
    \* the locals of the enumeration loop are out of scope
    /\ di' = 0 /\ port_count' = None /\ children' = <<>> /\ ci' = 0
    /\ printed' = ""
    /\ access' = None
    /\ UNCHANGED <<hub, ni, index, port, initOk, power, apiVars>>

\* ---- line 290, lines 143-145: HubControl::new(&device.info).await?
\* The hub's ports are in whatever power state they are in.
OpenHub ==
    /\ pc = "new"
    /\ hub = None
    /\ \/ /\ hub' = Some([name |-> selection[1].name, children |-> <<>>])
          /\ ni' = 0
          /\ power' \in [1 .. Len(selection[1].children) -> BOOLEAN]
          /\ UNCHANGED <<pc, exit, exitPath>>
       \/ /\ pc' = "exit"
          /\ exit' = Some(1)
          /\ exitPath' = "open"
          /\ UNCHANGED <<hub, ni, power>>
    /\ printed' = ""
    /\ access' = None
    /\ UNCHANGED <<devices, choices, di, port_count, children, ci, selection,
                   index, port, promptErr, initOk, apiVars>>

\* The result of the read thrown away: every port starts as off.
InitialStatus_AlwaysOff(o) == FALSE

\* control.status(index as u8 + 1).await.ok().unwrap_or(false)
InitialStatus(o) == IF o = None THEN FALSE ELSE StatusResult(o[1])

\* ---- lines 146-149: one port of the loop of TogglableDevice::new.
QueryPort ==
    /\ pc = "new"
    /\ hub # None
    /\ ni < Len(selection[1].children)
    /\ \E o \in StatusOutcomes(power, PortOfSlot(ni)) :
         /\ hub' = Some([hub[1] EXCEPT !.children =
                           Append(@, [name |-> selection[1].children[ni + 1],
                                      enabled |-> InitialStatus(o)])])
         /\ initOk' = IF o = None THEN initOk ELSE initOk \cup {PortOfSlot(ni)}
    /\ access' = Slot("status", {PortOfSlot(ni)}, Len(selection[1].children))
    /\ ni' = ni + 1
    /\ printed' = ""
    /\ UNCHANGED <<pc, devices, choices, di, port_count, children, ci, selection,
                   index, port, exit, exitPath, promptErr, power, apiVars>>

\* ---- lines 150-154, 292: the TogglableDevice is built, the loop begins.
EnterLoop ==
    /\ pc = "new"
    /\ hub # None
    /\ ni >= Len(selection[1].children)
    /\ pc' = "loop"
    /\ index' = 0
    /\ selection' = None
    /\ printed' = ""
    /\ access' = None
    /\ UNCHANGED <<devices, choices, di, port_count, children, ci, hub, ni, port,
                   exit, exitPath, promptErr, initOk, power, apiVars>>

\* TogglableDevice::selection(): one TogglablePort per child.
Selection(h) ==
    [i \in 1 .. Len(h.children) |->
        [name |-> h.children[i].name, enabled |-> h.children[i].enabled,
         index |-> PortOfSlot(i - 1)]]

\* ---- lines 293-297, 308-309: the port picker; an Err ends the loop.
SelectPort ==
    /\ pc = "loop"
    /\ \E r \in PromptOutcomes(Len(Selection(hub[1]))) :
         IF r[1] = "Ok"
         THEN /\ port' = Some(Selection(hub[1])[r[2]])
              /\ index' = Selection(hub[1])[r[2]].index - 1
              /\ pc' = "toggle"
              /\ promptErr' = None
              /\ printed' = ""
              /\ UNCHANGED <<exit, exitPath>>
         ELSE /\ pc' = "exit"
              /\ exit' = Some(0)
              /\ exitPath' = "done"
              /\ promptErr' = Some(r[2])
              /\ printed' = "Done"
              /\ UNCHANGED <<port, index>>
    /\ access' = None
    /\ UNCHANGED <<devices, choices, di, port_count, children, ci, selection,
                   hub, ni, initOk, power, apiVars>>

\* `port as usize` without the `- 1`: the flag of the next port is flipped
\* (the last port wraps to the first to stay in the vector).
Flipped_OffByOne(h, p) ==
    [h EXCEPT !.children[(p % Len(h.children)) + 1].enabled = ~@]

\* self.children[port as usize - 1].1 = !self.children[port as usize - 1].1
Flipped(h, p) == [h EXCEPT !.children[p].enabled = ~@]

\* ---- lines 298-306, 157-161: hub.toggle(port.index) and its report.
TogglePort ==
    /\ pc = "toggle"
    /\ LET p == port[1].index IN
       \E o \in StatusOutcomes(power, p) :
       \E featureOk \in FeatureOutcomes(power, p) :
         LET t == Toggle(power, p, o, featureOk) IN
         /\ power' = t.power
         /\ IF t.ok
            THEN /\ hub' = Some(Flipped(hub[1], p))
                 /\ access' = Slot("toggle", {p}, Len(hub[1].children))
                 /\ printed' = "Toggled"
            ELSE /\ access' = None
                 /\ printed' = "Couldn't toggle"
                 /\ UNCHANGED hub
    /\ pc' = "loop"
    /\ port' = None
    /\ UNCHANGED <<devices, choices, di, port_count, children, ci, selection,
                   ni, index, exit, exitPath, promptErr, initOk, apiVars>>

Init ==
    /\ pc = "start"
    /\ MainIdle
    /\ power = <<>>
    /\ bigEndian = FALSE
    /\ session = None
    /\ call = None
    /\ last = None

Next ==
    \/ ListDevices
    \/ EnumDevice
    \/ ScanChild
    \/ PushChoice
    \/ SelectHub
    \/ OpenHub
    \/ QueryPort
    \/ EnterLoop
    \/ SelectPort
    \/ TogglePort

Spec == Init /\ [][Next]_vars

\* ================================================================ claims
\* ---------------------------------------------------------------- SpecApi
IsCall(op) == call # None /\ call[1].op = op

OddBytes == {2 * k + 1 : k \in 0 .. 127}

\* C1: for every 4-byte port-status response, HubControl::status returns true
\* if and only if bit 0 of response byte 1 is set, whatever bytes 0, 2, 3 and
\* the other bits of byte 1 are.
C1_StatusIsBit0OfByte1 ==
    (IsCall("status") /\ call[1].ok) =>
        /\ Len(call[1].response[1]) = 4
        /\ call[1].result = Some(call[1].response[1][2] \in OddBytes)

\* A response with the connect bit (byte 0, bit 0) and bit 1 of byte 1 set and
\* PORT_POWER clear has been decoded as "off".
C1_Witness ==
    /\ IsCall("status") /\ call[1].ok
    /\ call[1].response[1][1] = 1
    /\ call[1].response[1][2] = 2
    /\ call[1].result = Some(FALSE)

\* C2: for every port and every value of `enabled`, set_port issues exactly
\* one class-type, port-recipient control-out transfer with value 8, index =
\* the port, an empty payload, and request SET_FEATURE (3) iff enabled,
\* CLEAR_FEATURE (1) iff not.
C2_SetPortEncoding ==
    IsCall("set_port") =>
        /\ Len(call[1].sent) = 1
        /\ LET r == call[1].sent[1] IN
           /\ r.control_type = "Class"
           /\ r.recipient = "Other"
           /\ r.value = 8
           /\ r.index = call[1].port
           /\ r.data = <<>>
           /\ (r.request = 3) <=> call[1].enabled
           /\ (r.request = 1) <=> ~call[1].enabled

\* off(255) has been issued.
C2_Witness ==
    /\ IsCall("set_port")
    /\ call[1].port = 255
    /\ ~call[1].enabled
    /\ call[1].sent[1].request = 1

\* What portStatus can return for port p of a hub in power state pw.
ReportedStates(pw, p) ==
    {StatusResult(o[1]) : o \in StatusOutcomes(pw, p) \ {None}}

\* C3: one successful togglePort leaves the reported power state of the port
\* inverted; two successive successful togglePort calls on the same port leave
\* it as it was before the first.
C3_ToggleTwiceRestores ==
    (IsCall("toggle") /\ call[1].ok) =>
        /\ ReportedStates(power, call[1].port) = {~call[1].before[1]}
        /\ (last # None /\ last[1].port = call[1].port) =>
              ReportedStates(power, call[1].port) = {last[1].before[1]}

\* Two successful toggles of port 2 in a row, the port powered at the start.
C3_Witness ==
    /\ IsCall("toggle") /\ call[1].ok /\ call[1].port = 2
    /\ last # None /\ last[1].port = 2 /\ last[1].before = Some(TRUE)

\* C7: the hub-descriptor request of portCount carries descriptor type 0x2A
\* in the high byte of the value field (low byte 0) if the device's USB
\* version is >= 0x0300 and 0x29 otherwise, and the flag is the one fixed at
\* session creation.
C7_DescriptorTypeByVersion ==
    /\ session # None =>
          session[1].is_superspeed = (session[1].usb_version >= 768)
    /\ IsCall("port_count") =>
          call[1].sent[1].value =
              256 * (IF session[1].usb_version >= 768 THEN 42 ELSE 41)

\* The same on a little-endian target, where it holds.
C7_OnLittleEndian == ~bigEndian => C7_DescriptorTypeByVersion

\* ------------------------------------------------------------------- Spec
\* Direct child, as the resolver is specified: same bus, the chain one
\* element longer, all elements but the last equal to the hub's.
DirectChild(h, c) ==
    /\ c.bus_id = h.bus_id
    /\ Len(c.port_chain) = Len(h.port_chain) + 1
    /\ \A k \in 1 .. Len(h.port_chain) : c.port_chain[k] = h.port_chain[k]

LastElement(c) == c.port_chain[Len(c.port_chain)]

\* The slots the resolver is specified to produce for hub h.
ExpectedSlots(l, h, count) ==
    [s \in 1 .. count |->
        IF \E j \in DOMAIN l : DirectChild(h, l[j]) /\ LastElement(l[j]) = s
        THEN ChildName(l[CHOOSE j \in DOMAIN l :
                             DirectChild(h, l[j]) /\ LastElement(l[j]) = s])
        ELSE NoDevice]

ScanOver == pc = "scan" /\ ci > Len(devices)

\* C4: for every device list, hub chain and port count the resolver puts each
\* direct child with last element p >= 1 in slot p and leaves every other
\* slot "<no device>".
C4_ResolverPlacesChildren ==
    /\ exitPath # "panic"
    /\ ScanOver => children = ExpectedSlots(devices, devices[di], port_count[1])

\* The same whenever the scan of a hub comes to its end.
C4_WhenScanCompletes ==
    ScanOver => children = ExpectedSlots(devices, devices[di], port_count[1])

ZeroPortChild(h, c) ==
    DirectChild(h, c) /\ Len(c.port_chain) > 0 /\ LastElement(c) = 0

Hubs(l) == SelectSeq(l, LAMBDA d : d.class = 9)

\* C5: a candidate that matches the hub and ends in port number 0 is reported
\* and skipped: no slot changes, the scan goes on with the next candidate and
\* the process does not end; every hub whose turn is over is in the choices.
C5_ZeroPortSkipped ==
    /\ [][(pc = "scan" /\ ci <= Len(devices)
             /\ ZeroPortChild(devices[di], devices[ci]))
          => /\ printed' = "ERROR: Port number is 0!"
             /\ children' = children
             /\ choices' = choices
             /\ ci' = ci + 1
             /\ pc' = "scan"
             /\ exit' = None]_vars
    /\ [](pc = "enum" /\ di >= 1 =>
            [n \in 1 .. Len(choices) |-> choices[n].info]
                = Hubs(SubSeq(devices, 1, di - 1)))

\* A hub with a port-0 child and a child on port 1 is among the choices, and
\* the child on port 1 is in its slot.
C5_Witness ==
    /\ pc = "enum"
    /\ \E n \in DOMAIN choices :
         /\ \E j \in DOMAIN devices : ZeroPortChild(choices[n].info, devices[j])
         /\ Len(choices[n].children) >= 1
         /\ choices[n].children[1] # NoDevice

\* C6: every port index used to access a port slot lies in 1..=port_count.
C6_PortIndexInRange ==
    access # None => access[1].ports \subseteq 1 .. access[1].count

SameNames(h1, h2) ==
    /\ Len(h1.children) = Len(h2.children)
    /\ \A i \in DOMAIN h1.children : h1.children[i].name = h2.children[i].name

\* The toggle step: the hub's power changes exactly when togglePort succeeds.
C8_ToggleStep ==
    pc = "toggle" =>
        /\ pc' = "loop"
        /\ SameNames(hub[1], hub'[1])
        /\ power' # power =>
              /\ printed' = "Toggled"
              /\ \A i \in DOMAIN hub[1].children :
                    hub'[1].children[i].enabled =
                        IF i = port[1].index THEN ~hub[1].children[i].enabled
                                             ELSE hub[1].children[i].enabled
        /\ power' = power =>
              /\ printed' = "Couldn't toggle"
              /\ hub' = hub

\* C8 as claimed: a successful togglePort flips the cached flag of the
\* selected port only, a failed one changes no flag and is reported, the
\* ports are presented again, and the loop ends only when the user cancels.
C8_LoopEndsOnlyOnCancel ==
    [][/\ C8_ToggleStep
       /\ (pc = "loop" /\ pc' # "toggle") =>
             (promptErr' # None /\ promptErr'[1] \in UserCancel)]_vars

\* C8 as it holds: the same, and the loop ends when the prompt returns any
\* error, the user's cancel or not, with "Done" and exit status 0.
C8_LoopEndsOnPromptError ==
    [][/\ C8_ToggleStep
       /\ (pc = "loop" /\ pc' # "toggle") =>
             /\ promptErr' # None
             /\ pc' = "exit" /\ exit' = Some(0) /\ printed' = "Done"
       /\ (pc = "loop" /\ pc' = "toggle") =>
             /\ promptErr' = None /\ hub' = hub /\ power' = power
             /\ port'[1].index \in 1 .. Len(hub[1].children)]_vars

\* A toggle of port 2 of a hub with 3 ports has failed and the ports are
\* presented again.
C8_Witness ==
    /\ pc = "loop" /\ printed = "Couldn't toggle"
    /\ Len(hub[1].children) = 3 /\ index = 1

\* C9: exit status 0 on normal completion and on every cancellation of a
\* prompt, non-zero only when device listing or opening the chosen hub fails.
C9_ExitStatus ==
    pc = "exit" =>
        /\ (exitPath = "done" \/ (promptErr # None /\ promptErr[1] \in UserCancel))
              => exit = Some(0)
        /\ exit # Some(0) => exitPath \in {"list_devices", "open"}

\* C10 as claimed: whenever the loop waits for a selection, the cached flag
\* of every port equals the hub's PORT_POWER state of that port.
C10_CacheMatchesHub ==
    pc = "loop" =>
        \A i \in DOMAIN hub[1].children : hub[1].children[i].enabled = power[i]

\* C10 as it holds: the same for every port whose status read at session
\* creation succeeded.
C10_CacheMatchesHubWhereRead ==
    pc = "loop" =>
        \A i \in DOMAIN hub[1].children :
            i \in initOk => hub[1].children[i].enabled = power[i]

\* After a successful toggle, with one port read at creation and one not.
C10_Witness ==
    /\ pc = "loop" /\ printed = "Toggled"
    /\ initOk # {} /\ initOk # DOMAIN hub[1].children
    /\ \E i \in initOk : hub[1].children[i].enabled

====
